---- MODULE Spec2Model ----
(***************************************************************************)
(* Model of bit/format.py: the byte-level codecs between wallet wire       *)
(* formats (public keys, WIF private keys, base58Check addresses, DER      *)
(* signatures) and the numeric domain.                                     *)
(*                                                                         *)
(* Every function of the module is pure, so the state is the last call:    *)
(* its name (op), its arguments (args), what it returned or raised (ret),  *)
(* and, when the argument was the previous call's return value, that       *)
(* previous call (origin).                                                 *)
(*                                                                         *)
(* Representation.                                                         *)
(*   bytes          a sequence of integers 0..255                          *)
(*   str (hex)      a sequence of character codes                          *)
(*   Python int     [neg |-> BOOLEAN, mag |-> big-endian bytes without     *)
(*                  leading zero]; 256-bit values keep their full width    *)
(*   base58 text    [alphabet, body, sumok, len]: whether every character  *)
(*                  is a base58 character, the bytes before the 4-byte     *)
(*                  checksum, whether the checksum matches, and the number *)
(*                  of characters                                          *)
(*   return         [ok |-> TRUE, val |-> v] or [ok |-> FALSE, exc |-> e]  *)
(***************************************************************************)
EXTENDS Integers, Sequences, FiniteSets, TLC

VARIABLES op, args, ret, origin

vars == <<op, args, ret, origin>>

(***************************************************************************)
(* Bounds of the enumerated inputs.                                        *)
(***************************************************************************)
\* Longest byte string enumerated exhaustively over ByteSamples.
MaxShortLen == 2
\* Private keys of 32 - KeySlack .. 32 + KeySlack bytes are encoded.
KeySlack == 1
\* Signatures have an r of up to MaxWideLen bytes.
MaxWideLen == 128

(***************************************************************************)
(* Program constants (format.py:9-22).                                     *)
(***************************************************************************)
MAIN_PUBKEY_HASH == 0
MAIN_SCRIPT_HASH == 5
MAIN_PRIVATE_KEY == 128
TEST_PUBKEY_HASH == 111
TEST_SCRIPT_HASH == 196
TEST_PRIVATE_KEY == 239
PUBLIC_KEY_UNCOMPRESSED == 4
PUBLIC_KEY_COMPRESSED_EVEN_Y == 2
PUBLIC_KEY_COMPRESSED_ODD_Y == 3
PRIVATE_KEY_COMPRESSED_PUBKEY == 1

(***************************************************************************)
(* Byte strings and unbounded non-negative integers.                       *)
(***************************************************************************)
Rep(n, b) == [i \in 1..n |-> b]

Slice(bs, i, j) == [k \in 1..(IF j >= i THEN j - i + 1 ELSE 0) |-> bs[i + k - 1]]

\* bs without its leading zero bytes.
StripZeros(bs) ==
    LET nz == {i \in 1..Len(bs) : bs[i] # 0}
    IN  IF nz = {} THEN <<>>
        ELSE Slice(bs, CHOOSE i \in nz : \A j \in nz : i <= j, Len(bs))

\* a > b for magnitudes of one length: the first byte that differs decides.
LexGt(a, b) ==
    \E i \in 1..Len(a) : a[i] > b[i] /\ \A j \in 1..(i - 1) : a[j] = b[j]

\* a > b for magnitudes (no leading zero).
MagGt(a, b) ==
    IF Len(a) # Len(b) THEN Len(a) > Len(b) ELSE LexGt(a, b)

\* The borrow into byte i of a - b: the bytes to its right are less in a.
Borrow(a, b, i) ==
    \E k \in (i + 1)..Len(a) :
        a[k] < b[k] /\ \A j \in (i + 1)..(k - 1) : a[j] = b[j]

\* a - b for byte strings of one length with a >= b: schoolbook subtraction.
SubFrom(a, b) ==
    [i \in 1..Len(a) |->
        (a[i] - b[i] - (IF Borrow(a, b, i) THEN 1 ELSE 0) + 256) % 256]

\* a - b for magnitudes with a >= b.
MagSub(a, b) == StripZeros(SubFrom(a, Rep(Len(a) - Len(b), 0) \o b))

\* The carry into byte i of a + 1: the bytes to its right are all 255.
Carry(a, i) == \A k \in (i + 1)..Len(a) : a[k] = 255

\* a + 1 for a magnitude.
MagInc(a) ==
    LET low == [i \in 1..Len(a) |-> IF Carry(a, i) THEN (a[i] + 1) % 256 ELSE a[i]]
    IN  IF Carry(a, 0) THEN <<1>> \o low ELSE low

\* a // 2 for a magnitude: every byte takes the low bit of the byte before.
MagHalf(a) ==
    StripZeros([i \in 1..Len(a) |->
                  (IF i > 1 THEN (a[i - 1] % 2) * 128 ELSE 0) + a[i] \div 2])

\* Python ints.
PyInt(mag) == [neg |-> FALSE, mag |-> mag]

\* a > b, for a, b >= 0.
IntGt(a, b) == MagGt(a.mag, b.mag)

\* a - b, for a, b >= 0.
IntSub(a, b) ==
    IF MagGt(b.mag, a.mag) THEN [neg |-> TRUE, mag |-> MagSub(b.mag, a.mag)]
    ELSE PyInt(MagSub(a.mag, b.mag))

\* a // 2, for a >= 0.
IntHalf(a) == PyInt(MagHalf(a.mag))

Returns(v) == [ok |-> TRUE, val |-> v]
Raises(e) == [ok |-> FALSE, exc |-> e]

(***************************************************************************)
(* bit.curve.GROUP_ORDER: the order of secp256k1's group,                  *)
(* FFFFFFFF FFFFFFFF FFFFFFFF FFFFFFFE BAAEDCE6 AF48A03B BFD25E8C D0364141. *)
(***************************************************************************)
GROUP_ORDER ==
    PyInt(<<255, 255, 255, 255, 255, 255, 255, 255,
          255, 255, 255, 255, 255, 255, 255, 254,
          186, 174, 220, 230, 175,  72, 160,  59,
          191, 210,  94, 140, 208,  54,  65,  65>>)

(***************************************************************************)
(* bit.utils.int_to_unknown_bytes: num.to_bytes((num.bit_length() + 7)     *)
(* // 8 or 1, 'big'): the minimal big-endian bytes, one zero byte for 0,   *)
(* OverflowError for a negative number.                                    *)
(***************************************************************************)
int_to_unknown_bytes(num) ==
    IF num.neg THEN Raises("OverflowError")
    ELSE IF num.mag = <<>> THEN Returns(<<0>>)
    ELSE Returns(num.mag)

(***************************************************************************)
(* crypto.decode_dss_signature: the DER reader of SEQUENCE { INTEGER r,     *)
(* INTEGER s }.  Lengths are in the short form (one byte below 128) or the *)
(* long form (0x81 n, 0x82 n n), minimal; integers are minimal and not     *)
(* negative.  Anything else is ValueError.                                 *)
(***************************************************************************)
\* The length field at position i: [n, next] or [n |-> -1].
DerLength(bs, i) ==
    IF i > Len(bs) THEN [n |-> -1, next |-> i]
    ELSE IF bs[i] < 128 THEN [n |-> bs[i], next |-> i + 1]
    ELSE IF bs[i] = 129 /\ i + 1 <= Len(bs) /\ bs[i + 1] >= 128
         THEN [n |-> bs[i + 1], next |-> i + 2]
    ELSE IF bs[i] = 130 /\ i + 2 <= Len(bs) /\ bs[i + 1] > 0
         THEN [n |-> bs[i + 1] * 256 + bs[i + 2], next |-> i + 3]
    ELSE [n |-> -1, next |-> i]

\* The INTEGER at position i: [okay, content, next].
DerInteger(bs, i) ==
    IF i > Len(bs) \/ bs[i] # 2 THEN [okay |-> FALSE]
    ELSE LET l == DerLength(bs, i + 1)
         IN  IF l.n < 1 \/ l.next + l.n - 1 > Len(bs) THEN [okay |-> FALSE]
             ELSE LET c == Slice(bs, l.next, l.next + l.n - 1)
                  IN  IF c[1] >= 128 THEN [okay |-> FALSE]
                      ELSE IF Len(c) > 1 /\ c[1] = 0 /\ c[2] < 128
                           THEN [okay |-> FALSE]
                      ELSE [okay |-> TRUE, content |-> c, next |-> l.next + l.n]

decode_dss_signature(signature) ==
    IF Len(signature) < 2 \/ signature[1] # 48 THEN Raises("ValueError")
    ELSE LET l == DerLength(signature, 2)
         IN  IF l.n < 0 \/ l.next + l.n - 1 # Len(signature)
             THEN Raises("ValueError")
             ELSE LET r == DerInteger(signature, l.next)
                  IN  IF ~r.okay THEN Raises("ValueError")
                      ELSE LET s == DerInteger(signature, r.next)
                           IN  IF ~s.okay \/ s.next # Len(signature) + 1
                               THEN Raises("ValueError")
                               ELSE Returns(<<PyInt(StripZeros(r.content)),
                                              PyInt(StripZeros(s.content))>>)

(***************************************************************************)
(* make_compliant_sig (format.py:47-67).                                   *)
(***************************************************************************)
\* A small natural number as a Python int.
RECURSIVE NatMag(_)
NatMag(n) == IF n = 0 THEN <<>> ELSE NatMag(n \div 256) \o <<n % 256>>

\* format.py:53, s = GROUP_ORDER - s if s > GROUP_ORDER // 2 else s
low_s_keep(s) == s

low_s_always(s) == IntSub(GROUP_ORDER, s)

low_s(s) == IF IntGt(s, IntHalf(GROUP_ORDER)) THEN IntSub(GROUP_ORDER, s) ELSE s

\* format.py:58-62, if r[0] & 0x80: r = b'\x00' + r
sign_pad_never(b) == b

sign_pad(b) == IF b[1] >= 128 THEN <<0>> \o b ELSE b

\* format.py:64-65, b'\x02' + int_to_unknown_bytes(len(r)) + r
der_element(content) ==
    <<2>> \o int_to_unknown_bytes(PyInt(NatMag(Len(content)))).val \o content

make_compliant_sig(signature) ==
    LET d == decode_dss_signature(signature)
    IN  IF ~d.ok THEN d
        ELSE LET r  == int_to_unknown_bytes(d.val[1])
                 s  == int_to_unknown_bytes(low_s(d.val[2]))
             IN  IF ~r.ok THEN r
                 ELSE IF ~s.ok THEN s
                 ELSE LET re == der_element(sign_pad(r.val))
                          se == der_element(sign_pad(s.val))
                      IN  Returns(<<48>>
                            \o int_to_unknown_bytes(
                                   PyInt(NatMag(Len(re) + Len(se)))).val
                            \o re \o se)

(***************************************************************************)
(* bit.curve.x_to_y on a curve y^2 = x^3 + 7 over a field of FIELD_SIZE     *)
(* elements, FIELD_SIZE = 3 (mod 4) as for secp256k1 and scaled to two     *)
(* bytes: the root of the given parity, or no solution.                    *)
(***************************************************************************)
FIELD_SIZE == 263

RECURSIVE PowMod(_, _, _)
PowMod(b, e, m) ==
    IF e = 0 THEN 1
    ELSE LET h == PowMod(b, e \div 2, m)
         IN  IF e % 2 = 0 THEN (h * h) % m ELSE (((h * h) % m) * b) % m

\* The value of a magnitude of at most two bytes, else -1.
MagNat(mag) ==
    CASE Len(mag) = 0 -> 0
      [] Len(mag) = 1 -> mag[1]
      [] Len(mag) = 2 -> mag[1] * 256 + mag[2]
      [] OTHER -> -1

CurveRhs(x) == (x * x * x + 7) % FIELD_SIZE

x_to_y(x, y_parity) ==
    LET xn == MagNat(x.mag)
    IN  IF xn < 0 \/ xn >= FIELD_SIZE THEN Raises("InvalidPoint")
        ELSE LET y == PowMod(CurveRhs(xn), (FIELD_SIZE + 1) \div 4, FIELD_SIZE)
             IN  IF (y * y) % FIELD_SIZE # CurveRhs(xn) THEN Raises("InvalidPoint")
                 ELSE IF y % 2 # y_parity
                      THEN Returns(PyInt(NatMag((FIELD_SIZE - y) % FIELD_SIZE)))
                      ELSE Returns(PyInt(NatMag(y)))

(***************************************************************************)
(* public_key_to_coords, coords_to_public_key (format.py:145-166).         *)
(***************************************************************************)
\* int.from_bytes(bs, 'big')
from_bytes(bs) == PyInt(StripZeros(bs))

\* x.to_bytes(length, 'big')
to_bytes(x, length) ==
    IF x.neg \/ Len(x.mag) > length THEN Raises("OverflowError")
    ELSE Returns(Rep(length - Len(x.mag), 0) \o x.mag)

\* x & 1
IsOdd(x) == x.mag # <<>> /\ x.mag[Len(x.mag)] % 2 = 1

public_key_to_coords(public_key) ==
    LET length == Len(public_key)
    IN  IF length = 33
        THEN LET flag == public_key[1]
                 x    == from_bytes(Slice(public_key, 2, 33))
                 y    == x_to_y(x, flag % 2)
             IN  IF ~y.ok THEN y ELSE Returns(<<x, y.val>>)
        ELSE IF length = 65
        THEN Returns(<<from_bytes(Slice(public_key, 2, 33)),
                       from_bytes(Slice(public_key, 34, 65))>>)
        ELSE Raises("ValueError")

\* format.py:163, the parity prefix of the compressed form
parity_prefix_swapped(y) ==
    IF IsOdd(y) THEN PUBLIC_KEY_COMPRESSED_EVEN_Y ELSE PUBLIC_KEY_COMPRESSED_ODD_Y

parity_prefix(y) ==
    IF IsOdd(y) THEN PUBLIC_KEY_COMPRESSED_ODD_Y ELSE PUBLIC_KEY_COMPRESSED_EVEN_Y

coords_to_public_key(x, y, compressed) ==
    LET xb == to_bytes(x, 32)
        yb == to_bytes(y, 32)
    IN  IF compressed
        THEN (IF ~xb.ok THEN xb ELSE Returns(<<parity_prefix(y)>> \o xb.val))
        ELSE IF ~xb.ok THEN xb
        ELSE IF ~yb.ok THEN yb
        ELSE Returns(<<PUBLIC_KEY_UNCOMPRESSED>> \o xb.val \o yb.val)

(***************************************************************************)
(* verify_sig (format.py:25-44).  crypto.verify_signature is the external  *)
(* ECDSA primitive: its outcome (True, False or InvalidSignature) is an    *)
(* input of the call.                                                      *)
(***************************************************************************)
verify_signature(signature, data, point, outcome) == outcome

\* format.py:41, if s > GROUP_ORDER // 2
high_s_never(s) == FALSE

high_s(s) == IntGt(s, IntHalf(GROUP_ORDER))

verify_sig(signature, data, public_key, strict, outcome) ==
    LET d  == decode_dss_signature(signature)
        pt == public_key_to_coords(public_key)
    IN  IF strict /\ ~d.ok THEN d
        ELSE IF strict /\ high_s(d.val[2]) THEN Raises("InvalidSignature")
        ELSE IF ~pt.ok THEN pt
        ELSE verify_signature(signature, data, pt.val, outcome)

(***************************************************************************)
(* bit.base58: b58encode_check appends the 4-byte double-SHA256 checksum   *)
(* and writes the bytes in base 58, one '1' per leading zero byte;         *)
(* b58decode_check reads them back and fails with ValueError on a          *)
(* character outside the alphabet or a checksum that does not match.  The  *)
(* checksum is a hash: its four bytes are an input of the call.            *)
(***************************************************************************)
\* The number of leading zero bytes.
LeadingZeros(bs) == Len(bs) - Len(StripZeros(bs))

\* The powers of 58 from 58^0 up, as magnitudes of at most 48 bytes.
Pow58 ==
    <<
      <<1>>,
      <<58>>,
      <<13, 36>>,
      <<2, 250, 40>>,
      <<172, 173, 16>>,
      <<39, 31, 53, 160>>,
      <<8, 221, 18, 38, 64>>,
      <<2, 2, 22, 28, 170, 128>>,
      <<116, 121, 2, 126, 161, 0>>,
      <<26, 99, 106, 144, 176, 122, 0>>,
      <<5, 250, 134, 36, 199, 251, 164, 0>>,
      <<1, 90, 194, 100, 85, 79, 3, 40, 0>>,
      <<78, 144, 10, 187, 83, 230, 183, 16, 0>>,
      <<17, 204, 162, 110, 113, 2, 69, 121, 160, 0>>,
      <<4, 8, 92, 205, 5, 154, 131, 189, 142, 64, 0>>,
      <<233, 229, 6, 115, 69, 1, 216, 242, 58, 128, 0>>,
      <<52, 253, 227, 118, 29, 162, 107, 38, 225, 65, 0, 0>>,
      <<12, 1, 133, 136, 194, 182, 204, 70, 207, 8, 186, 0, 0>>,
      <<2, 184, 88, 64, 252, 29, 106, 72, 10, 231, 250, 36, 0, 0>>,
      <<157, 195, 254, 185, 30, 170, 20, 82, 120, 142, 172, 40, 0, 0>>,
      <<35, 190, 103, 181, 240, 242, 136, 154, 175, 80, 83, 1, 16, 0, 0>>,
      <<8, 25, 35, 127, 56, 150, 242, 243, 11, 184, 50, 206, 61, 160, 0, 0>>,
      <<1, 213, 178, 10, 210, 210, 51, 11, 16, 167, 187, 130, 185, 246, 64,
        0, 0>>,
      <<106, 106, 86, 115, 195, 159, 144, 129, 198, 0, 123, 158, 33, 202,
        128, 0, 0>>,
      <<24, 28, 23, 150, 58, 82, 38, 189, 102, 220, 28, 1, 211, 167, 225,
        0, 0, 0>>,
      <<5, 118, 93, 88, 9, 54, 156, 198, 233, 77, 222, 88, 105, 244, 8,
        250, 0, 0, 0>>,
      <<1, 60, 209, 37, 242, 22, 95, 133, 16, 219, 164, 96, 8, 1, 74, 8,
        164, 0, 0, 0>>,
      <<71, 199, 98, 152, 217, 17, 164, 37, 209, 195, 61, 193, 208, 74,
        197, 245, 40, 0, 0, 0>>,
      <<16, 67, 44, 86, 161, 45, 255, 48, 145, 134, 59, 253, 233, 48, 240,
        217, 139, 16, 0, 0, 0>>,
      <<3, 175, 56, 11, 160, 132, 107, 209, 0, 248, 105, 151, 134, 213, 22,
        145, 73, 129, 160, 0, 0, 0>>,
      <<213, 178, 178, 162, 94, 0, 109, 90, 56, 71, 236, 84, 140, 71, 28,
        234, 167, 94, 64, 0, 0, 0>>,
      <<48, 106, 124, 120, 201, 76, 24, 198, 112, 192, 75, 139, 39, 200,
        28, 141, 41, 235, 90, 128, 0, 0, 0>>,
      <<10, 248, 32, 51, 93, 155, 61, 156, 245, 139, 145, 29, 135, 3, 86,
        119, 251, 127, 82, 129, 0, 0, 0, 0>>,
      <<2, 124, 55, 75, 163, 53, 43, 245, 143, 161, 158, 224, 176, 150,
        193, 151, 46, 250, 216, 177, 58, 0, 0, 0, 0>>,
      <<144, 36, 135, 34, 250, 11, 245, 162, 138, 157, 254, 232, 2, 39,
        220, 64, 164, 213, 24, 39, 36, 0, 0, 0, 0>>,
      <<32, 168, 70, 157, 236, 166, 181, 166, 211, 103, 203, 192, 144, 125,
        7, 230, 165, 88, 71, 120, 222, 40, 0, 0, 0, 0>>,
      <<7, 102, 31, 255, 199, 157, 197, 39, 203, 229, 132, 41, 160, 188,
        83, 202, 65, 118, 0, 49, 98, 85, 16, 0, 0, 0, 0>>,
      <<1, 173, 35, 63, 243, 57, 190, 171, 4, 49, 255, 241, 110, 106, 170,
        251, 210, 212, 188, 11, 48, 71, 69, 160, 0, 0, 0, 0>>,
      <<97, 57, 252, 125, 27, 21, 50, 190, 243, 83, 252, 179, 4, 42, 189,
        13, 196, 50, 154, 136, 240, 37, 198, 64, 0, 0, 0, 0>>,
      <<22, 7, 35, 52, 88, 34, 205, 127, 67, 33, 7, 64, 142, 241, 174, 213,
        30, 115, 119, 3, 6, 104, 142, 234, 128, 0, 0, 0, 0>>,
      <<4, 253, 157, 249, 219, 247, 226, 142, 213, 53, 123, 164, 160, 98,
        193, 156, 72, 230, 40, 246, 175, 115, 176, 97, 33, 0, 0, 0, 0, 0>>,
      <<1, 33, 117, 202, 155, 214, 41, 84, 92, 78, 30, 3, 76, 86, 95, 221,
        104, 132, 37, 71, 227, 192, 53, 246, 1, 122, 0, 0, 0, 0, 0>>,
      <<65, 148, 175, 231, 78, 133, 93, 28, 233, 178, 204, 191, 75, 145,
        184, 41, 173, 240, 114, 73, 153, 140, 57, 188, 85, 164, 0, 0, 0, 0,
        0>>,
      <<14, 219, 175, 218, 103, 202, 55, 24, 140, 242, 130, 99, 87, 31, 3,
        185, 113, 104, 121, 228, 172, 201, 197, 20, 171, 103, 40, 0, 0, 0,
        0, 0>>,
      <<3, 93, 197, 215, 123, 131, 208, 123, 143, 238, 241, 138, 129, 189,
        6, 216, 3, 177, 171, 157, 207, 37, 182, 166, 174, 213, 95, 16, 0,
        0, 0, 0, 0>>,
      <<195, 62, 210, 209, 251, 221, 59, 254, 156, 34, 185, 97, 100, 211,
        140, 240, 214, 64, 225, 192, 238, 139, 97, 195, 156, 87, 137, 160,
        0, 0, 0, 0, 0>>,
      <<44, 60, 59, 195, 147, 16, 31, 151, 175, 95, 222, 0, 16, 215, 237,
        238, 144, 138, 179, 37, 182, 11, 148, 38, 81, 107, 213, 46, 64, 0,
        0, 0, 0, 0>>,
      <<10, 5, 165, 138, 79, 81, 167, 40, 93, 187, 184, 76, 3, 208, 235,
        232, 12, 191, 108, 150, 139, 62, 159, 144, 174, 114, 110, 76, 122,
        128, 0, 0, 0, 0, 0>>,
      <<2, 69, 71, 129, 85, 248, 127, 223, 37, 60, 135, 193, 56, 221, 85,
        114, 146, 227, 94, 154, 27, 140, 48, 38, 199, 133, 236, 253, 83,
        193, 0, 0, 0, 0, 0, 0>>,
      <<131, 178, 51, 77, 122, 76, 248, 142, 111, 182, 193, 198, 226, 37,
        91, 245, 71, 131, 110, 234, 61, 194, 232, 201, 52, 87, 177, 100,
        249, 186, 0, 0, 0, 0, 0, 0>>,
      <<29, 214, 95, 159, 141, 181, 112, 80, 69, 79, 103, 231, 15, 60, 118,
        213, 146, 51, 199, 33, 17, 254, 40, 189, 149, 219, 222, 48, 224,
        148, 36, 0, 0, 0, 0, 0, 0>>,
      <<6, 194, 145, 170, 38, 27, 27, 114, 47, 179, 253, 138, 89, 115, 178,
        236, 99, 31, 187, 29, 126, 19, 149, 58, 243, 243, 208, 87, 18, 225,
        144, 40, 0, 0, 0, 0, 0, 0>>,
      <<1, 136, 21, 0, 140, 162, 36, 55, 222, 206, 199, 113, 88, 68, 54,
        137, 142, 117, 48, 100, 174, 144, 111, 207, 91, 69, 61, 51, 186,
        71, 26, 169, 16, 0, 0, 0, 0, 0, 0>>,
      <<88, 212, 194, 31, 220, 188, 52, 168, 122, 217, 47, 173, 255, 116,
        91, 42, 70, 140, 246, 207, 140, 185, 84, 250, 173, 175, 221, 184,
        52, 28, 10, 77, 160, 0, 0, 0, 0, 0, 0>>,
      <<20, 32, 51, 251, 56, 2, 163, 238, 43, 213, 52, 205, 107, 224, 92,
        167, 147, 251, 239, 235, 5, 225, 253, 64, 203, 89, 216, 59, 187,
        206, 90, 85, 150, 64, 0, 0, 0, 0, 0, 0>>,
      <<4, 143, 75, 198, 234, 176, 153, 35, 245, 238, 77, 246, 138, 112,
        212, 253, 247, 135, 20, 91, 63, 85, 51, 96, 174, 18, 90, 253, 136,
        140, 192, 119, 100, 10, 128, 0, 0, 0, 0, 0, 0>>,
      <<1, 8, 119, 43, 17, 44, 2, 178, 37, 183, 253, 169, 219, 93, 144, 65,
        138, 20, 154, 156, 172, 89, 77, 163, 231, 112, 40, 157, 112, 239,
        227, 155, 12, 170, 97, 0, 0, 0, 0, 0, 0, 0>>,
      <<59, 234, 255, 193, 227, 248, 156, 92, 139, 175, 120, 123, 179, 50,
        174, 217, 72, 171, 7, 127, 12, 59, 151, 34, 111, 105, 51, 171, 150,
        89, 145, 32, 222, 153, 250, 0, 0, 0, 0, 0, 0, 0>>,
      <<13, 147, 61, 241, 237, 166, 83, 108, 247, 165, 193, 76, 6, 153,
        123, 157, 58, 118, 191, 178, 200, 197, 128, 61, 205, 61, 213, 180,
        224, 16, 74, 225, 114, 110, 226, 164, 0, 0, 0, 0, 0, 0, 0>>,
      <<3, 19, 92, 8, 207, 215, 174, 230, 176, 27, 141, 203, 57, 126, 198,
        1, 159, 62, 231, 110, 129, 124, 191, 14, 0, 128, 2, 106, 250, 195,
        176, 247, 19, 237, 31, 89, 40, 0, 0, 0, 0, 0, 0, 0>>,
      <<178, 98, 217, 255, 22, 221, 160, 67, 230, 62, 32, 11, 6, 184, 220,
        94, 20, 64, 111, 9, 86, 67, 73, 44, 29, 0, 140, 60, 208, 86, 23,
        250, 131, 185, 26, 51, 16, 0, 0, 0, 0, 0, 0, 0>>,
      <<40, 106, 101, 99, 203, 46, 54, 79, 98, 42, 19, 66, 127, 133, 225,
        237, 80, 150, 153, 40, 29, 139, 62, 147, 254, 146, 31, 197, 199,
        51, 129, 110, 193, 215, 239, 239, 145, 160, 0, 0, 0, 0, 0, 0, 0>>,
      <<9, 40, 26, 248, 156, 8, 120, 77, 252, 61, 136, 93, 16, 228, 85, 47,
        196, 66, 30, 179, 22, 177, 140, 45, 135, 173, 27, 50, 207, 33, 171,
        83, 23, 234, 236, 92, 70, 254, 64, 0, 0, 0, 0, 0, 0, 0>>,
      <<2, 19, 22, 28, 83, 89, 235, 65, 171, 37, 240, 229, 21, 211, 187,
        76, 210, 118, 250, 244, 147, 36, 57, 194, 80, 189, 56, 41, 130,
        237, 160, 208, 211, 107, 57, 140, 232, 21, 154, 128, 0, 0, 0, 0, 0,
        0, 0>>,
      <<120, 83, 2, 106, 226, 95, 76, 224, 198, 152, 147, 230, 241, 248,
        111, 103, 174, 244, 219, 105, 86, 53, 22, 6, 74, 222, 185, 103,
        169, 214, 111, 79, 230, 75, 9, 236, 148, 229, 1, 0, 0, 0, 0, 0, 0,
        0, 0>>,
      <<27, 66, 206, 140, 55, 73, 151, 106, 236, 254, 145, 130, 82, 210,
        73, 61, 125, 163, 121, 181, 221, 136, 6, 253, 108, 246, 118, 1,
        124, 122, 149, 56, 26, 45, 0, 63, 153, 187, 226, 58, 0, 0, 0, 0, 0,
        0, 0, 0>>
    >>

\* The number of base-58 digits of a magnitude of at most 48 bytes: the
\* number of powers of 58 that do not exceed it.
Digits58(mag) ==
    Cardinality({k \in 1..Len(Pow58) : ~MagGt(Pow58[k], mag)})

\* len(b58encode(bs))
B58Len(bs) == LeadingZeros(bs) + Digits58(StripZeros(bs))

b58encode_check(payload, checksum) ==
    [alphabet |-> TRUE, body |-> payload, sumok |-> TRUE,
     len |-> B58Len(payload \o checksum)]

b58decode_check(string) ==
    IF ~string.alphabet THEN Raises("ValueError")
    ELSE IF ~string.sumok THEN Raises("ValueError")
    ELSE Returns(string.body)

(***************************************************************************)
(* bit.utils.bytes_to_hex, hex_to_bytes: lower-case hexlify, and           *)
(* bytes.fromhex of the text, '0'-padded on the left to an even length.    *)
(***************************************************************************)
HexDigit(n) == IF n < 10 THEN 48 + n ELSE 87 + n

HexVal(c) ==
    CASE c \in 48..57  -> c - 48
      [] c \in 97..102 -> c - 87
      [] c \in 65..70  -> c - 55
      [] OTHER -> -1

PyBytes(bs) == [type |-> "bytes", v |-> bs]
PyStr(cs) == [type |-> "str", v |-> cs]

bytes_to_hex(bytestr) ==
    [i \in 1..(2 * Len(bytestr)) |->
        IF i % 2 = 1 THEN HexDigit(bytestr[(i + 1) \div 2] \div 16)
        ELSE HexDigit(bytestr[i \div 2] % 16)]

hex_to_bytes(hexed) ==
    LET h == IF Len(hexed) % 2 = 1 THEN <<48>> \o hexed ELSE hexed
    IN  IF \E i \in 1..Len(h) : HexVal(h[i]) < 0 THEN Raises("ValueError")
        ELSE Returns([i \in 1..(Len(h) \div 2) |->
                        HexVal(h[2 * i - 1]) * 16 + HexVal(h[2 * i])])

(***************************************************************************)
(* address_to_public_key_hash (format.py:70-71).                           *)
(***************************************************************************)
address_to_public_key_hash(address) ==
    LET d == b58decode_check(address)
    IN  IF ~d.ok THEN d
        ELSE Returns(Slice(d.val, 2, Len(d.val)))

(***************************************************************************)
(* hex_to_wif, wif_to_hex, wif_checksum_check (format.py:74-127).          *)
(***************************************************************************)
\* format.py:76-79
wif_prefix(version) ==
    IF version = "test" THEN TEST_PRIVATE_KEY ELSE MAIN_PRIVATE_KEY

hex_to_wif(private_key, version, compressed, checksum) ==
    LET prefix == <<wif_prefix(version)>>
        suffix == IF compressed THEN <<PRIVATE_KEY_COMPRESSED_PUBKEY>> ELSE <<>>
        key    == IF private_key.type # "bytes" THEN hex_to_bytes(private_key.v)
                  ELSE Returns(private_key.v)
    IN  IF ~key.ok THEN key
        ELSE Returns(b58encode_check(prefix \o key.val \o suffix, checksum))

\* format.py:109, if len(wif) == 52 and private_key[-1] == 1
has_compression_flag_by_last_byte(wif, private_key) ==
    private_key[Len(private_key)] = 1

has_compression_flag(wif, private_key) ==
    wif.len = 52 /\ private_key[Len(private_key)] = 1

wif_to_hex(wif) ==
    LET d == b58decode_check(wif)
    IN  IF ~d.ok THEN d
        ELSE LET private_key == d.val
                 version ==
                     IF private_key # <<>> /\ private_key[1] = MAIN_PRIVATE_KEY
                     THEN "main"
                     ELSE IF private_key # <<>> /\ private_key[1] = TEST_PRIVATE_KEY
                     THEN "test"
                     ELSE "neither"
             IN  IF version = "neither" THEN Raises("ValueError")
                 ELSE IF has_compression_flag(wif, private_key)
                 THEN Returns(<<PyStr(bytes_to_hex(
                                   Slice(private_key, 2, Len(private_key) - 1))),
                                TRUE, version>>)
                 ELSE Returns(<<PyStr(bytes_to_hex(
                                   Slice(private_key, 2, Len(private_key)))),
                                FALSE, version>>)

\* format.py:121, except ValueError
caught_nothing(exc) == FALSE

caught(exc) == exc = "ValueError"

\* format.py:124, decoded[:1] in (MAIN_PRIVATE_KEY, TEST_PRIVATE_KEY)
is_private_key_version(decoded) ==
    decoded # <<>> /\ decoded[1] \in {MAIN_PRIVATE_KEY, TEST_PRIVATE_KEY}

wif_checksum_check(wif) ==
    LET d == b58decode_check(wif)
    IN  IF ~d.ok THEN (IF caught(d.exc) THEN Returns(FALSE) ELSE d)
        ELSE IF is_private_key_version(d.val) THEN Returns(TRUE)
        ELSE Returns(FALSE)

(***************************************************************************)
(* The inputs of the calls.                                                *)
(***************************************************************************)
ByteSamples == {0, 1, 127, 128, 255}

ShortStrings == UNION {[1..n -> ByteSamples] : n \in 0..MaxShortLen}

ShortMags == {StripZeros(b) : b \in ShortStrings}

HalfOrder == IntHalf(GROUP_ORDER).mag

\* 32-byte integers around the thresholds of the low-S rule, and 33-byte ones.
WideMags ==
    {<<a>> \o Rep(31, f) : a \in ByteSamples \ {0}, f \in {0, 255}}
    \cup {GROUP_ORDER.mag, MagSub(GROUP_ORDER.mag, <<1>>), MagInc(GROUP_ORDER.mag),
          HalfOrder, MagInc(HalfOrder)}
    \cup {<<a>> \o Rep(32, 0) : a \in {1, 128}}

\* Integers of many bytes, for r.
LongMags ==
    {<<a>> \o Rep(n - 1, 0) :
        a \in {1, 128}, n \in {MaxWideLen - 2, MaxWideLen - 1, MaxWideLen}}

IntegerMags == ShortMags \cup WideMags

\* crypto.encode_dss_signature: the DER bytes of the pair (r, s).
DerLengthBytes(n) ==
    IF n < 128 THEN <<n>>
    ELSE IF n < 256 THEN <<129, n>>
    ELSE <<130, n \div 256, n % 256>>

DerIntegerBytes(mag) ==
    LET v == IF mag = <<>> THEN <<0>> ELSE mag
        c == IF v[1] >= 128 THEN <<0>> \o v ELSE v
    IN  <<2>> \o DerLengthBytes(Len(c)) \o c

DerSignature(r, s) ==
    LET body == DerIntegerBytes(r) \o DerIntegerBytes(s)
    IN  <<48>> \o DerLengthBytes(Len(body)) \o body

\* Bytes that are no DER signature: empty, truncated, an INTEGER with a
\* superfluous zero, a negative INTEGER, a wrong tag.
MalformedSignatures ==
    {<<>>, <<48, 6, 2, 1, 1>>, <<48, 7, 2, 2, 0, 1, 2, 1, 1>>,
     <<48, 6, 2, 1, 128, 2, 1, 1>>, <<49, 6, 2, 1, 1, 2, 1, 1>>}

Signatures ==
    {DerSignature(r, s) : r \in WideMags \cup LongMags, s \in IntegerMags}
    \cup {DerSignature(r, s) : r \in IntegerMags, s \in WideMags}
    \cup MalformedSignatures

VerifySignatures ==
    {DerSignature(<<1>>, s) : s \in IntegerMags} \cup MalformedSignatures

Messages == {<<>>, <<1>>}

VerifyOutcomes == {Returns(TRUE), Returns(FALSE), Raises("InvalidSignature")}

\* Coordinates as 32-byte fields.
CoordFields ==
    {Rep(32 - Len(m), 0) \o m : m \in ShortMags} \cup {Rep(32, 255)}

YFields == {Rep(32 - Len(m), 0) \o m : m \in {n \in ShortMags : Len(n) <= 1}}

PrefixSamples == {0, 2, 3, 4, 5, 6}

KeyBodies ==
    {x \o t : x \in CoordFields, t \in {<<>>, <<0>>} \cup YFields}
    \cup {Slice(x, 2, 32) : x \in CoordFields}
    \cup {x \o y \o <<0>> : x \in YFields, y \in YFields}

PublicKeys == {<<>>} \cup {<<p>> \o b : p \in PrefixSamples, b \in KeyBodies}

VerifyPublicKeys ==
    {<<>>, <<2>> \o Rep(31, 0) \o <<1>>, <<3>> \o Rep(31, 0) \o <<0>>,
     <<4>> \o Rep(31, 0) \o <<1>> \o Rep(31, 0) \o <<43>>,
     <<4>> \o Rep(31, 0) \o <<1>>, <<4>> \o Rep(65, 0)}

\* The points of the curve, by its equation.
CurvePoints ==
    {<<PyInt(NatMag(q[1])), PyInt(NatMag(q[2]))>> :
        q \in {c \in (0..(FIELD_SIZE - 1)) \X (0..(FIELD_SIZE - 1)) :
                 (c[2] * c[2]) % FIELD_SIZE = CurveRhs(c[1])}}

\* Pairs that are no point: off the curve, or wider than 32 bytes.
OtherPoints ==
    {<<PyInt(<<1>>), PyInt(<<44>>)>>, <<PyInt(<<>>), PyInt(<<1>>)>>,
     <<PyInt(<<1>> \o Rep(32, 0)), PyInt(<<1>>)>>,
     <<PyInt(<<1>>), PyInt(<<1>> \o Rep(32, 0))>>}

Points == CurvePoints \cup OtherPoints

KeyLens == (32 - KeySlack)..(32 + KeySlack)

KeyBytes ==
    {<<a>> \o Rep(n - 2, f) \o <<b>> :
        a \in ByteSamples, b \in ByteSamples, f \in {0, 255}, n \in KeyLens}

UpperHex(cs) == [i \in 1..Len(cs) |-> IF cs[i] \in 97..102 THEN cs[i] - 32 ELSE cs[i]]

\* A private key as the caller gives it: bytes, or hex text in either case;
\* and text that is no hex.
PrivateKeys ==
    {PyBytes(k) : k \in KeyBytes}
    \cup {PyStr(bytes_to_hex(k)) : k \in KeyBytes}
    \cup {PyStr(UpperHex(bytes_to_hex(k))) : k \in KeyBytes}
    \cup {PyStr(<<49>>), PyStr(<<122, 122>>)}

Networks == {"main", "test"}

Checksums == {Rep(4, 0), Rep(4, 255)}

VersionSamples ==
    {MAIN_PUBKEY_HASH, MAIN_SCRIPT_HASH, TEST_PUBKEY_HASH, TEST_SCRIPT_HASH,
     MAIN_PRIVATE_KEY, TEST_PRIVATE_KEY, 66}

PayloadRests ==
    ShortStrings
    \cup {Rep(n - 1, 255) \o <<b>> : n \in KeyLens \cup {20}, b \in {0, 1, 2}}

Payloads == {<<>>} \cup {<<v>> \o r : v \in VersionSamples, r \in PayloadRests}

\* Base58 texts: well-formed ones, ones with a foreign character, ones whose
\* checksum does not match.
Texts ==
    {[alphabet |-> a, body |-> p, sumok |-> s, len |-> B58Len(p \o c)] :
        a \in BOOLEAN, s \in BOOLEAN, p \in Payloads, c \in Checksums}

(***************************************************************************)
(* The calls.                                                              *)
(***************************************************************************)
NoCall == [op |-> "none"]

Init ==
    /\ op = "idle"
    /\ args = <<>>
    /\ ret = <<>>
    /\ origin = NoCall

CallVerifySig ==
    /\ op = "idle"
    /\ \E signature \in VerifySignatures, data \in Messages,
          public_key \in VerifyPublicKeys, strict \in BOOLEAN,
          outcome \in VerifyOutcomes :
        /\ op' = "verify_sig"
        /\ args' = [signature |-> signature, data |-> data,
                    public_key |-> public_key, strict |-> strict,
                    outcome |-> outcome]
        /\ ret' = verify_sig(signature, data, public_key, strict, outcome)
        /\ origin' = NoCall

CallMakeCompliantSig ==
    /\ op = "idle"
    /\ \E signature \in Signatures :
        /\ op' = "make_compliant_sig"
        /\ args' = [signature |-> signature]
        /\ ret' = make_compliant_sig(signature)
        /\ origin' = NoCall

\* make_compliant_sig(make_compliant_sig(sig))
CallMakeCompliantSigAgain ==
    /\ op = "make_compliant_sig"
    /\ origin = NoCall
    /\ ret.ok
    /\ op' = "make_compliant_sig"
    /\ args' = [signature |-> ret.val]
    /\ ret' = make_compliant_sig(ret.val)
    /\ origin' = [op |-> op, args |-> args, ret |-> ret]

CallAddressToPublicKeyHash ==
    /\ op = "idle"
    /\ \E address \in Texts :
        /\ op' = "address_to_public_key_hash"
        /\ args' = [address |-> address]
        /\ ret' = address_to_public_key_hash(address)
        /\ origin' = NoCall

CallHexToWif ==
    /\ op = "idle"
    /\ \E private_key \in PrivateKeys, version \in Networks,
          compressed \in BOOLEAN, checksum \in Checksums :
        /\ op' = "hex_to_wif"
        /\ args' = [private_key |-> private_key, version |-> version,
                    compressed |-> compressed]
        /\ ret' = hex_to_wif(private_key, version, compressed, checksum)
        /\ origin' = NoCall

CallWifToHex ==
    /\ op = "idle"
    /\ \E wif \in Texts :
        /\ op' = "wif_to_hex"
        /\ args' = [wif |-> wif]
        /\ ret' = wif_to_hex(wif)
        /\ origin' = NoCall

\* wif_to_hex(hex_to_wif(k, network, compressed))
CallWifToHexOfWif ==
    /\ op = "hex_to_wif"
    /\ ret.ok
    /\ op' = "wif_to_hex"
    /\ args' = [wif |-> ret.val]
    /\ ret' = wif_to_hex(ret.val)
    /\ origin' = [op |-> op, args |-> args, ret |-> ret]

CallWifChecksumCheck ==
    /\ op = "idle"
    /\ \E wif \in Texts :
        /\ op' = "wif_checksum_check"
        /\ args' = [wif |-> wif]
        /\ ret' = wif_checksum_check(wif)
        /\ origin' = NoCall

CallPublicKeyToCoords ==
    /\ op = "idle"
    /\ \E public_key \in PublicKeys :
        /\ op' = "public_key_to_coords"
        /\ args' = [public_key |-> public_key]
        /\ ret' = public_key_to_coords(public_key)
        /\ origin' = NoCall

CallCoordsToPublicKey ==
    /\ op = "idle"
    /\ \E pt \in Points, compressed \in BOOLEAN :
        /\ op' = "coords_to_public_key"
        /\ args' = [x |-> pt[1], y |-> pt[2], compressed |-> compressed]
        /\ ret' = coords_to_public_key(pt[1], pt[2], compressed)
        /\ origin' = NoCall

\* public_key_to_coords(coords_to_public_key(x, y, compressed))
CallPublicKeyToCoordsOfKey ==
    /\ op = "coords_to_public_key"
    /\ ret.ok
    /\ op' = "public_key_to_coords"
    /\ args' = [public_key |-> ret.val]
    /\ ret' = public_key_to_coords(ret.val)
    /\ origin' = [op |-> op, args |-> args, ret |-> ret]

\* The caller is done with the result.
Return ==
    /\ op # "idle"
    /\ op' = "idle"
    /\ args' = <<>>
    /\ ret' = <<>>
    /\ origin' = NoCall

Next ==
    \/ CallVerifySig
    \/ CallMakeCompliantSig
    \/ CallMakeCompliantSigAgain
    \/ CallAddressToPublicKeyHash
    \/ CallHexToWif
    \/ CallWifToHex
    \/ CallWifToHexOfWif
    \/ CallWifChecksumCheck
    \/ CallPublicKeyToCoords
    \/ CallCoordsToPublicKey
    \/ CallPublicKeyToCoordsOfKey
    \/ Return

Spec == Init /\ [][Next]_vars

(***************************************************************************)
(* The claims.                                                             *)
(***************************************************************************)
BelowOrder(x) == MagGt(GROUP_ORDER.mag, x.mag)

AboveHalfOrder(x) == MagGt(x.mag, HalfOrder)

\* The low-S form of s, as the rule states it.
CanonicalS(s) == IF AboveHalfOrder(s) THEN IntSub(GROUP_ORDER, s) ELSE s

\* The bytes of the private key given to hex_to_wif.
GivenKeyBytes(private_key) ==
    IF private_key.type = "bytes" THEN Returns(private_key.v)
    ELSE hex_to_bytes(private_key.v)

WifRoundTripOf32ByteKey ==
    /\ op = "wif_to_hex"
    /\ origin.op = "hex_to_wif"
    /\ GivenKeyBytes(origin.args.private_key).ok
    /\ Len(GivenKeyBytes(origin.args.private_key).val) = 32

VerifyOfHighS ==
    /\ op = "verify_sig"
    /\ decode_dss_signature(args.signature).ok
    /\ AboveHalfOrder(decode_dss_signature(args.signature).val[2])

\* C2 as stated: with s > order/2, strict verification fails with
\* InvalidSignature, and non-strict verification returns the primitive's
\* result, for any message and public key.
C2_StrictRejectsAnyKey ==
    VerifyOfHighS =>
        IF args.strict THEN ret = Raises("InvalidSignature")
        ELSE ret = args.outcome

\* C2 amended: with s > order/2, strict verification fails with
\* InvalidSignature for any message and public key; non-strict verification
\* returns the primitive's result for any message and any public key that
\* public_key_to_coords decodes.
C2_StrictRejectsDecodableKey ==
    VerifyOfHighS =>
        /\ args.strict => ret = Raises("InvalidSignature")
        /\ (~args.strict /\ public_key_to_coords(args.public_key).ok)
              => ret = args.outcome

\* A high-S signature the primitive accepts is rejected in strict mode.
C2_Witness ==
    /\ VerifyOfHighS
    /\ args.strict
    /\ args.outcome = Returns(TRUE)
    /\ public_key_to_coords(args.public_key).ok
    /\ ret = Raises("InvalidSignature")

CanonicalizeOfPositiveSBelowOrder ==
    /\ op = "make_compliant_sig"
    /\ origin = NoCall
    /\ decode_dss_signature(args.signature).ok
    /\ decode_dss_signature(args.signature).val[2].mag # <<>>
    /\ BelowOrder(decode_dss_signature(args.signature).val[2])

LowSResult(sig) ==
    LET r == decode_dss_signature(sig).val[1]
        s == decode_dss_signature(sig).val[2]
    IN  /\ ret.ok
        /\ decode_dss_signature(ret.val).ok
        /\ decode_dss_signature(ret.val).val[1] = r
        /\ decode_dss_signature(ret.val).val[2] = CanonicalS(s)
        /\ ~AboveHalfOrder(decode_dss_signature(ret.val).val[2])

\* C3 as stated: for every decodable (r, s) with 0 < s < order the result
\* encodes r and s', s' <= order/2, s' = order - s if s > order/2 else s.
C3_LowSForAnyR ==
    CanonicalizeOfPositiveSBelowOrder => LowSResult(args.signature)

\* C3 amended: for every decodable (r, s) with r < order and 0 < s < order
\* the result encodes r and s', s' <= order/2, s' = order - s if
\* s > order/2 else s.
C3_LowSForRBelowOrder ==
    (/\ CanonicalizeOfPositiveSBelowOrder
     /\ BelowOrder(decode_dss_signature(args.signature).val[1]))
        => LowSResult(args.signature)

\* s = order - 1 is replaced by 1.
C3_Witness ==
    /\ CanonicalizeOfPositiveSBelowOrder
    /\ decode_dss_signature(args.signature).val[2]
          = PyInt(MagSub(GROUP_ORDER.mag, <<1>>))
    /\ decode_dss_signature(args.signature).val[1].mag # <<>>
    /\ BelowOrder(decode_dss_signature(args.signature).val[1])
    /\ ret.ok
    /\ decode_dss_signature(ret.val).val[1] = decode_dss_signature(args.signature).val[1]
    /\ decode_dss_signature(ret.val).val[2] = PyInt(<<1>>)

CanonicalizedTwice ==
    /\ op = "make_compliant_sig"
    /\ origin.op = "make_compliant_sig"

\* C4 as stated: make_compliant_sig(make_compliant_sig(sig)) equals
\* make_compliant_sig(sig) for any decodable signature.
C4_IdempotentForAnySignature ==
    CanonicalizedTwice => ret = Returns(args.signature)

\* C4 amended: make_compliant_sig(make_compliant_sig(sig)) equals
\* make_compliant_sig(sig) for any decodable signature whose r and s are
\* below the group order.
C4_IdempotentBelowOrder ==
    (/\ CanonicalizedTwice
     /\ BelowOrder(decode_dss_signature(origin.args.signature).val[1])
     /\ BelowOrder(decode_dss_signature(origin.args.signature).val[2]))
        => ret = Returns(args.signature)

\* A high-S signature, changed by the first call, is left alone by the second.
C4_Witness ==
    /\ CanonicalizedTwice
    /\ BelowOrder(decode_dss_signature(origin.args.signature).val[1])
    /\ BelowOrder(decode_dss_signature(origin.args.signature).val[2])
    /\ AboveHalfOrder(decode_dss_signature(origin.args.signature).val[2])
    /\ origin.ret.val # origin.args.signature
    /\ ret = Returns(args.signature)

CodecRoundTripOfPoint ==
    /\ op = "public_key_to_coords"
    /\ origin.op = "coords_to_public_key"
    /\ <<origin.args.x, origin.args.y>> \in CurvePoints

\* C5: public_key_to_coords(coords_to_public_key(x, y, compressed)) = (x, y)
\* for every point of the curve, compressed or not; the encoding of a point
\* of the curve never fails.
C5_PublicKeyRoundTrip ==
    /\ CodecRoundTripOfPoint => ret = Returns(<<origin.args.x, origin.args.y>>)
    /\ (op = "coords_to_public_key" /\ <<args.x, args.y>> \in CurvePoints)
          => (ret.ok /\ Len(ret.val) = IF args.compressed THEN 33 ELSE 65)

\* A point with an odd y of two bytes is recovered from its compressed form.
C5_Witness ==
    /\ CodecRoundTripOfPoint
    /\ origin.args.compressed
    /\ IsOdd(origin.args.y)
    /\ Len(origin.args.y.mag) = 2
    /\ args.public_key[1] = PUBLIC_KEY_COMPRESSED_ODD_Y
    /\ ret = Returns(<<origin.args.x, origin.args.y>>)

WellFormedPublicKey(public_key) ==
    \/ /\ Len(public_key) = 33
       /\ public_key[1] \in {PUBLIC_KEY_COMPRESSED_EVEN_Y, PUBLIC_KEY_COMPRESSED_ODD_Y}
    \/ /\ Len(public_key) = 65
       /\ public_key[1] = PUBLIC_KEY_UNCOMPRESSED

\* C6: public_key_to_coords returns a point only for 33 bytes starting 0x02
\* or 0x03, or 65 bytes starting 0x04; every other length and first byte
\* fails.
C6_DecodeValidatesPrefix ==
    (op = "public_key_to_coords" /\ ret.ok) => WellFormedPublicKey(args.public_key)

AddressVersions ==
    {MAIN_PUBKEY_HASH, MAIN_SCRIPT_HASH, TEST_PUBKEY_HASH, TEST_SCRIPT_HASH}

\* C7: address_to_public_key_hash returns bytes only when the decoded
\* payload starts with a recognized version byte; a text with a valid
\* checksum and another version byte fails.
C7_AddressVersionChecked ==
    (op = "address_to_public_key_hash" /\ ret.ok) =>
        /\ args.address.body # <<>>
        /\ args.address.body[1] \in AddressVersions

\* C8: wif_checksum_check returns a boolean for every text and never raises:
\* false when base58Check decoding fails, otherwise true exactly when the
\* first decoded byte is the mainnet or testnet private-key version.
C8_ChecksumCheckTotal ==
    op = "wif_checksum_check" =>
        /\ ret.ok
        /\ ret.val \in BOOLEAN
        /\ ret.val = (/\ args.wif.alphabet
                      /\ args.wif.sumok
                      /\ args.wif.body # <<>>
                      /\ args.wif.body[1] \in {128, 239})

\* A text whose checksum does not match gives False.
C8_Witness ==
    /\ op = "wif_checksum_check"
    /\ args.wif.alphabet
    /\ ~args.wif.sumok
    /\ args.wif.body # <<>>
    /\ args.wif.body[1] = 128
    /\ ret = Returns(FALSE)

\* The content bytes of a DER INTEGER: minimal big-endian, 0x00 in front
\* exactly when the first byte has its high bit set.
SignedContent(x) ==
    LET v == IF x.mag = <<>> THEN <<0>> ELSE x.mag
    IN  IF v[1] >= 128 THEN <<0>> \o v ELSE v

\* C9: for r, s below the group order the result is 0x30, one length byte,
\* then for r and for the low-S s: 0x02, one length byte, the minimal
\* big-endian bytes with 0x00 in front iff the high bit is set; each content
\* is at most 33 bytes and every length byte is below 128.
C9_Serialization ==
    (/\ op = "make_compliant_sig"
     /\ origin = NoCall
     /\ decode_dss_signature(args.signature).ok
     /\ BelowOrder(decode_dss_signature(args.signature).val[1])
     /\ BelowOrder(decode_dss_signature(args.signature).val[2]))
        => LET rc == SignedContent(decode_dss_signature(args.signature).val[1])
               sc == SignedContent(
                         CanonicalS(decode_dss_signature(args.signature).val[2]))
           IN  /\ ret.ok
               /\ Len(rc) <= 33
               /\ Len(sc) <= 33
               /\ Len(rc) + Len(sc) + 4 < 128
               /\ ret.val = <<48, Len(rc) + Len(sc) + 4>>
                               \o <<2, Len(rc)>> \o rc
                               \o <<2, Len(sc)>> \o sc

\* A 32-byte r with its high bit set is written as 33 bytes, 0x00 first.
C9_Witness ==
    /\ op = "make_compliant_sig"
    /\ origin = NoCall
    /\ decode_dss_signature(args.signature).ok
    /\ BelowOrder(decode_dss_signature(args.signature).val[1])
    /\ BelowOrder(decode_dss_signature(args.signature).val[2])
    /\ Len(decode_dss_signature(args.signature).val[1].mag) = 32
    /\ decode_dss_signature(args.signature).val[1].mag[1] >= 128
    /\ ret.ok
    /\ ret.val[4] = 33
    /\ ret.val[5] = 0

\* C10: for a text that decodes to a payload with a private-key version byte,
\* wif_to_hex reports compressed exactly when the payload has the length of a
\* key with a marker (34) and the marker is 0x01, and returns the payload
\* without version byte (and marker), which is 32 bytes; any other version
\* byte fails.
C10_WifDecodeReturns32Bytes ==
    (/\ op = "wif_to_hex"
     /\ origin = NoCall
     /\ b58decode_check(args.wif).ok)
        => LET body == args.wif.body
               marked == Len(body) = 34 /\ body[34] = PRIVATE_KEY_COMPRESSED_PUBKEY
               key == IF marked THEN Slice(body, 2, 33) ELSE Slice(body, 2, Len(body))
           IN  IF body # <<>> /\ body[1] \in {MAIN_PRIVATE_KEY, TEST_PRIVATE_KEY}
               THEN /\ ret.ok
                    /\ ret.val[2] = marked
                    /\ hex_to_bytes(ret.val[1].v) = Returns(key)
                    /\ Len(key) = 32
               ELSE ~ret.ok
====
